---- MODULE Spec2Model ----
(***************************************************************************)
(* The ownership-checked project service of the Floorspace 3D Viewer:      *)
(* the five Lambda handlers (getProject, listProjects, createUpdateProject,*)
(* deleteProject, uploadFloorspace) over a DynamoDB table keyed by         *)
(* (userId, projectId) and an S3 bucket keyed by s3Key.                    *)
(*                                                                         *)
(* A handler is a sequence of steps, one per awaited store call: the step  *)
(* that starts a request runs the synchronous code up to the first store   *)
(* call, and every later step is one store call together with the          *)
(* synchronous code that follows it, up to the next store call or the      *)
(* return.                                                                 *)
(***************************************************************************)
EXTENDS Integers, Sequences, FiniteSets, TLC

VARIABLES table, bucket, clock, uuidCount, started, req, dashboard, editor

\* The state of the single-page client: the ProjectDashboard component and
\* the FloorspaceEditorPage component.
frontend == <<dashboard, editor>>

vars == <<table, bucket, clock, uuidCount, started, req, dashboard, editor>>

(***************************************************************************)
(* Bounds of the model.                                                    *)
(***************************************************************************)
\* Requests started in one behaviour.
MaxRequests == 3
\* Largest reading of the clock (new Date()).
MaxClock == 1
\* Identifiers randomUUID() hands out in one behaviour.
MaxUuid == 1

(***************************************************************************)
(* JavaScript values: the parsed request body and what is read from it.    *)
(* A JavaScript string is a sequence of one-character strings.             *)
(***************************************************************************)
Undef == [t |-> "undefined"]
JNull == [t |-> "null"]
JBool(b) == [t |-> "bool", b |-> b]
JNum(n) == [t |-> "num", n |-> n]
JStr(s) == [t |-> "str", s |-> s]
JArr(a) == [t |-> "arr", a |-> a]
\* An object is the sequence of its <<key, value>> properties, in order.
JObj(o) == [t |-> "obj", o |-> o]

\* The text of a JavaScript string.
RECURSIVE StrOf(_)
StrOf(s) == IF s = << >> THEN "" ELSE Head(s) \o StrOf(Tail(s))

RECURSIVE Stringify(_)
RECURSIVE JoinArr(_)
RECURSIVE JoinObj(_)
\* JSON.stringify of a value read from a parsed body.
Stringify(v) ==
    CASE v.t = "null" -> "null"
      [] v.t = "bool" -> (IF v.b THEN "true" ELSE "false")
      [] v.t = "num" -> ToString(v.n)
      [] v.t = "str" -> "\"" \o StrOf(v.s) \o "\""
      [] v.t = "arr" -> "[" \o JoinArr(v.a) \o "]"
      [] v.t = "obj" -> "{" \o JoinObj(v.o) \o "}"
JoinArr(a) ==
    IF a = << >> THEN ""
    ELSE Stringify(Head(a)) \o (IF Len(a) > 1 THEN "," ELSE "") \o JoinArr(Tail(a))
JoinObj(o) ==
    IF o = << >> THEN ""
    ELSE "\"" \o Head(o)[1] \o "\":" \o Stringify(Head(o)[2])
         \o (IF Len(o) > 1 THEN "," ELSE "") \o JoinObj(Tail(o))

\* v[k] of JavaScript for a value that is neither null nor undefined.
Prop(v, k) ==
    IF v.t = "obj" /\ \E i \in 1..Len(v.o) : v.o[i][1] = k
    THEN v.o[CHOOSE i \in 1..Len(v.o) : v.o[i][1] = k][2]
    ELSE Undef

\* Reading a property of null or undefined throws a TypeError.
PropThrows(v) == v.t \in {"null", "undefined"}

\* !v of JavaScript.
Falsy(v) ==
    \/ v.t \in {"undefined", "null"}
    \/ v.t = "bool" /\ ~v.b
    \/ v.t = "num" /\ v.n = 0
    \/ v.t = "str" /\ v.s = << >>

RECURSIVE TrimStart(_)
TrimStart(s) == IF s # << >> /\ Head(s) = " " THEN TrimStart(Tail(s)) ELSE s
RECURSIVE TrimEnd(_)
TrimEnd(s) ==
    IF s # << >> /\ s[Len(s)] = " " THEN TrimEnd(SubSeq(s, 1, Len(s) - 1)) ELSE s
\* String.prototype.trim.
Trim(s) == TrimEnd(TrimStart(s))

(***************************************************************************)
(* The requests of the model.                                              *)
(***************************************************************************)
Users == {"u1", "u2"}
\* The project ids a caller names in the path.
Ids == {"p1"}
\* pathParameters?.projectId is undefined (or empty: both are falsy).
NoProjectId == ""
\* event.body is null (or empty: both are falsy).
NoBody == ""
\* The i-th identifier randomUUID() returns: never one a caller names.
Uuid(i) == "g" \o ToString(i)

\* event.requestContext: the authorizer and its claims may be missing.
Authorized(u) == [authorizer |-> TRUE, claims |-> TRUE, sub |-> u]
NoAuthorizer == [authorizer |-> FALSE, claims |-> FALSE, sub |-> ""]
NoClaims == [authorizer |-> TRUE, claims |-> FALSE, sub |-> ""]
NoSub == [authorizer |-> TRUE, claims |-> TRUE, sub |-> ""]
Unverified == {NoAuthorizer, NoClaims, NoSub}
AuthContexts == Unverified \cup {Authorized(u) : u \in Users}

\* The document createUpdateProject writes for a new project.
EmptyFloorspaceJson ==
    JObj(<< <<"version", JStr(<<"1", ".", "0">>)>>, <<"stories", JArr(<< >>)>>,
            <<"building_units", JArr(<< >>)>>, <<"thermal_zones", JArr(<< >>)>>,
            <<"space_types", JArr(<< >>)>>, <<"construction_sets", JArr(<< >>)>> >>)

\* Payloads a client uploads: the falsy JSON values, and two truthy ones.
Doc1 == JObj(<< <<"version", JStr(<<"1", ".", "0">>)>>,
                <<"stories", JArr(<<JObj(<< <<"id", JStr(<<"s", "1">>)>> >>)>>)>> >>)
FalsyPayloads == {JNull, JBool(FALSE), JNum(0), JStr(<< >>)}
TruthyPayloads == {Doc1, JArr(<< >>)}
Payloads == FalsyPayloads \cup TruthyPayloads

\* The parsed bodies of POST /projects/{id}.
ProjectInputs ==
    { JNull, JObj(<< >>),
      JObj(<< <<"name", JStr(<< >>)>> >>),
      JObj(<< <<"name", JStr(<<" ", " ">>)>> >>),
      JObj(<< <<"name", JNum(5)>> >>),
      JObj(<< <<"name", JStr(<<" ", "A", " ">>)>> >>),
      JObj(<< <<"name", JStr(<<"B">>)>>, <<"description", JStr(<<" ", "d">>)>> >>) }

\* The parsed bodies of POST /projects/{id}/upload.
UploadRequests ==
    {JNull, JObj(<< >>)} \cup {JObj(<< <<"floorspaceJson", p>> >>) : p \in Payloads}

\* A body that is no JSON text.
BadJson == "{bad"
CreateBodies == {NoBody, BadJson} \cup {Stringify(v) : v \in ProjectInputs}
UploadBodies == {NoBody, BadJson} \cup {Stringify(v) : v \in UploadRequests}

\* The document the editor starts from when a project's blob cannot be read.
EmptyFloorspaceData ==
    JObj(<< <<"version", JStr(<<"1", ".", "0">>)>>, <<"stories", JArr(<< >>)>>,
            <<"building_units", JArr(<< >>)>>, <<"thermal_zones", JArr(<< >>)>>,
            <<"space_types", JArr(<< >>)>>, <<"construction_sets", JArr(<< >>)>> >>)

\* The body api.uploadFloorspace posts for a document.
UploadRequestOf(data) == JObj(<< <<"floorspaceJson", data>> >>)

\* The JSON texts of the model and the value each parses to.
JsonValues ==
    ProjectInputs \cup UploadRequests \cup Payloads \cup {EmptyFloorspaceJson}
        \cup {UploadRequestOf(EmptyFloorspaceData)}
ParseTable ==
    [text \in {Stringify(v) : v \in JsonValues} |->
        CHOOSE v \in JsonValues : Stringify(v) = text]
\* JSON.parse: the value, or a SyntaxError.
JSONparse(text) ==
    IF text \in DOMAIN ParseTable
    THEN [ok |-> TRUE, value |-> ParseTable[text]]
    ELSE [ok |-> FALSE, value |-> Undef]

(***************************************************************************)
(* The Record Store (DynamoDB) and the Blob Store (S3).                    *)
(* table maps <<userId, projectId>> to an item; bucket maps an s3Key to    *)
(* the body stored there.                                                  *)
(***************************************************************************)
\* Mutant of DdbGet: an item under the project id is found in any partition.
DdbGetAnyOwner(tbl, userId, projectId) ==
    IF <<userId, projectId>> \in DOMAIN tbl THEN <<tbl[<<userId, projectId>>]>>
    ELSE IF \E k \in DOMAIN tbl : k[2] = projectId
    THEN <<tbl[CHOOSE k \in DOMAIN tbl : k[2] = projectId]>>
    ELSE << >>

\* GetCommand with Key {userId, projectId}: << >> for no Item, <<item>> else.
DdbGet(tbl, userId, projectId) ==
    IF <<userId, projectId>> \in DOMAIN tbl THEN <<tbl[<<userId, projectId>>]>> ELSE << >>

\* PutCommand: the item replaces whatever is stored under its key.
DdbPut(tbl, item) ==
    [k \in DOMAIN tbl \cup {<<item.userId, item.projectId>>} |->
        IF k = <<item.userId, item.projectId>> THEN item ELSE tbl[k]]

\* Mutant of DdbUpdate: the item is replaced by its key and the one attribute.
DdbUpdateReplaces(tbl, userId, projectId, updatedAt) ==
    [k \in DOMAIN tbl \cup {<<userId, projectId>>} |->
        IF k = <<userId, projectId>>
        THEN [userId |-> userId, projectId |-> projectId, updatedAt |-> updatedAt]
        ELSE tbl[k]]

\* UpdateCommand 'SET updatedAt = :updatedAt': DynamoDB creates the item, with
\* its key and the one attribute, when none is stored under the key.
DdbUpdate(tbl, userId, projectId, updatedAt) ==
    [k \in DOMAIN tbl \cup {<<userId, projectId>>} |->
        IF k = <<userId, projectId>>
        THEN IF k \in DOMAIN tbl
             THEN [f \in DOMAIN tbl[k] \cup {"updatedAt"} |->
                      IF f = "updatedAt" THEN updatedAt ELSE tbl[k][f]]
             ELSE [userId |-> userId, projectId |-> projectId, updatedAt |-> updatedAt]
        ELSE tbl[k]]

\* Mutant of DdbDelete: the item stays.
DdbDeleteNothing(tbl, userId, projectId) == tbl

\* DeleteCommand: no error when nothing is stored under the key.
DdbDelete(tbl, userId, projectId) ==
    [k \in DOMAIN tbl \ {<<userId, projectId>>} |-> tbl[k]]

\* Mutant of DdbQuery: the items of every partition.
DdbScan(tbl, userId) == {tbl[k] : k \in DOMAIN tbl}

\* QueryCommand with 'userId = :userId': the items of one partition.
DdbQuery(tbl, userId) == {tbl[k] : k \in {kk \in DOMAIN tbl : kk[1] = userId}}

\* PutObjectCommand.
S3Put(bkt, key, body) == [k \in DOMAIN bkt \cup {key} |-> IF k = key THEN body ELSE bkt[k]]

\* DeleteObjectCommand: no error when there is no object at the key.
S3Delete(bkt, key) == [k \in DOMAIN bkt \ {key} |-> bkt[k]]

\* Mutant of S3Key: the path leaves the owner out.
S3KeyByIdOnly(userId, projectId) == projectId \o "/floorspace.json"

\* The blob path createUpdateProject stores in the item.
S3Key(userId, projectId) == userId \o "/" \o projectId \o "/floorspace.json"

\* Mutant of ItemS3Key: the fallback path has its parts in another order.
ItemS3KeySwapped(item, userId, projectId) ==
    IF "s3Key" \in DOMAIN item /\ item.s3Key # "" THEN item.s3Key
    ELSE projectId \o "/" \o userId \o "/floorspace.json"

\* project.s3Key || `${userId}/${projectId}/floorspace.json`
ItemS3Key(item, userId, projectId) ==
    IF "s3Key" \in DOMAIN item /\ item.s3Key # "" THEN item.s3Key
    ELSE userId \o "/" \o projectId \o "/floorspace.json"

\* getSignedUrl for a GetObjectCommand on the key.
PresignedUrl(key) == "https://bucket/" \o key \o "?X-Amz-Expires=900"

(***************************************************************************)
(* A request in flight: the event, the handler's position and its locals.  *)
(***************************************************************************)
\* The handler invocations that can be in flight together.
Slots == {1, 2, 3}

NoResponse == [statusCode |-> 0, body |-> [pending |-> TRUE]]

\* event.requestContext.authorizer?.claims?.sub
Sub(auth) == IF auth.authorizer /\ auth.claims THEN auth.sub ELSE ""

NewRequest(op, auth, pathId, body) ==
    [op |-> op, auth |-> auth, pathId |-> pathId, body |-> body, pc |-> "start",
     userId |-> "", projectId |-> "", input |-> Undef, item |-> << >>,
     isNewProject |-> FALSE, createdAt |-> 0, updatedAt |-> 0, s3Key |-> "",
     calls |-> << >>, error |-> "", resp |-> NoResponse]

Idle == [NewRequest("none", NoAuthorizer, NoProjectId, NoBody) EXCEPT !.pc = "idle"]

\* The handler returns an error response.
Fail(r, status, code) ==
    [r EXCEPT !.pc = "done",
              !.resp = [statusCode |-> status, body |-> [error |-> [code |-> code]]]]

\* The handler returns a success response.
Reply(r, status, body) ==
    [r EXCEPT !.pc = "done", !.resp = [statusCode |-> status, body |-> body]]

\* A store call is made.
Call(r, name) == [r EXCEPT !.calls = Append(@, name)]

\* Mutant of Rejected: the call is made a second time before the handler
\* gives up.
RejectedAfterRetry(r, name) ==
    [Fail(Call(Call(r, name), name), 500, "INTERNAL_ERROR") EXCEPT !.error = name]

\* A store call is made and rejects: the handler's catch block has the error
\* and returns 500.
Rejected(r, name) == [Fail(Call(r, name), 500, "INTERNAL_ERROR") EXCEPT !.error = name]

\* The fields a handler copies from an item into its response: a field the
\* item lacks is undefined and JSON.stringify leaves it out.
ViewFields == {"projectId", "name", "description", "createdAt", "updatedAt"}
\* Mutant of View: updatedAt is copied from createdAt.
ViewUpdatedAsCreated(item) ==
    [f \in DOMAIN item \cap ViewFields |->
        IF f = "updatedAt" THEN item.createdAt ELSE item[f]]

View(item) == [f \in DOMAIN item \cap ViewFields |-> item[f]]

Free(s) == req[s].pc \in {"idle", "done"}

\* How far new Date() may have moved since the last reading.
Ticks == {d \in {0, 1} : clock + d <= MaxClock}

\* No api call of the dashboard is in flight.
NoApiCall == [kind |-> "none", projectId |-> ""]

\* ProjectDashboard as it mounts: useState([]), useState(true), useState('').
DashboardInit == [projects |-> {}, loading |-> TRUE, error |-> "", call |-> NoApiCall]

\* FloorspaceEditorPage before its effects run: project and floorspaceData
\* null, loading true, no error, saveStatus 'idle'. phase is the position of
\* loadProject, fetched the outcome of the signed-URL fetch, saves the
\* invocations that run the uploads in flight, autoSave whether the 30-second
\* timer is pending and resets the number of pending 2-second timers.
EditorInit ==
    [projectId |-> "", project |-> << >>, floorspaceData |-> JNull, loading |-> TRUE,
     error |-> "", saveStatus |-> "idle", phase |-> "unmounted", fetched |-> "none",
     saves |-> {}, autoSave |-> FALSE, resets |-> 0]

Init ==
    /\ table = << >>
    /\ bucket = << >>
    /\ clock = 0
    /\ uuidCount = 0
    /\ started = 0
    /\ req = [s \in Slots |-> Idle]
    /\ dashboard = DashboardInit
    /\ editor = EditorInit

(***************************************************************************)
(* createUpdateProject: POST /projects/{projectId}                         *)
(***************************************************************************)
\* A createdAt read from an item that has none (undefined).
NoTimestamp == -1

\* Mutant of CreateValidate: the name is not trimmed before its length is
\* checked.
CreateValidateUntrimmed(r) ==
    LET parsed == JSONparse(r.body)
        name == Prop(parsed.value, "name")
    IN  IF Sub(r.auth) = "" THEN Fail(r, 401, "UNAUTHORIZED")
        ELSE IF r.body = NoBody THEN Fail(r, 400, "VALIDATION_ERROR")
        ELSE IF ~parsed.ok THEN Fail(r, 400, "VALIDATION_ERROR")
        ELSE IF PropThrows(parsed.value) THEN Fail(r, 500, "INTERNAL_ERROR")
        ELSE IF Falsy(name) THEN Fail(r, 400, "VALIDATION_ERROR")
        ELSE IF name.t # "str" THEN Fail(r, 500, "INTERNAL_ERROR")
        ELSE [r EXCEPT !.userId = Sub(r.auth), !.input = parsed.value, !.pc = "validated"]

\* The checks before the first store call.
CreateValidate(r) ==
    LET parsed == JSONparse(r.body)
        name == Prop(parsed.value, "name")
    IN  IF Sub(r.auth) = "" THEN Fail(r, 401, "UNAUTHORIZED")
        ELSE IF r.body = NoBody THEN Fail(r, 400, "VALIDATION_ERROR")
        ELSE IF ~parsed.ok THEN Fail(r, 400, "VALIDATION_ERROR")
        ELSE IF PropThrows(parsed.value) THEN Fail(r, 500, "INTERNAL_ERROR")
        ELSE IF Falsy(name) THEN Fail(r, 400, "VALIDATION_ERROR")
        ELSE IF name.t # "str" THEN Fail(r, 500, "INTERNAL_ERROR")
        ELSE IF Len(Trim(name.s)) = 0 THEN Fail(r, 400, "VALIDATION_ERROR")
        ELSE [r EXCEPT !.userId = Sub(r.auth), !.input = parsed.value, !.pc = "validated"]

\* projectInput.description?.trim() throws for a value that is no string.
DescriptionThrows(input) ==
    Prop(input, "description").t \notin {"undefined", "null", "str"}

\* projectInput.description?.trim() || ''
DescriptionOf(input) ==
    IF Prop(input, "description").t = "str" THEN Trim(Prop(input, "description").s)
    ELSE << >>

\* Mutant of ProjectItem: the name is stored as sent.
ProjectItemUntrimmed(r) ==
    [userId |-> r.userId, projectId |-> r.projectId, name |-> Prop(r.input, "name").s,
     description |-> DescriptionOf(r.input), createdAt |-> r.createdAt,
     updatedAt |-> r.updatedAt, s3Key |-> r.s3Key]

\* The Item of the PutCommand.
ProjectItem(r) ==
    [userId |-> r.userId, projectId |-> r.projectId, name |-> Trim(Prop(r.input, "name").s),
     description |-> DescriptionOf(r.input), createdAt |-> r.createdAt,
     updatedAt |-> r.updatedAt, s3Key |-> r.s3Key]

\* updatedAt and s3Key are set and the PutCommand is built: the handler is at
\* the put, or has thrown (a description that is no string, or an undefined
\* createdAt, which the document client refuses to marshall).
CreatePrepare(r, now) ==
    IF DescriptionThrows(r.input) \/ r.createdAt = NoTimestamp
    THEN Fail(r, 500, "INTERNAL_ERROR")
    ELSE [r EXCEPT !.updatedAt = now, !.s3Key = S3Key(r.userId, r.projectId),
                   !.pc = "putItem"]

\* Mutant of CreateAfterGet: an update stamps createdAt anew.
CreateAfterGetFreshCreatedAt(r, found, now1, now2) ==
    IF found # << >>
    THEN IF found[1].userId # r.userId THEN Fail(r, 403, "FORBIDDEN")
         ELSE CreatePrepare([r EXCEPT !.item = found, !.createdAt = now1], now2)
    ELSE CreatePrepare([r EXCEPT !.isNewProject = TRUE, !.createdAt = now1], now2)

\* The handler with the GetCommand's answer: an update of the item found, or
\* a new project under the id the caller named.
CreateAfterGet(r, found, now1, now2) ==
    IF found # << >>
    THEN IF found[1].userId # r.userId THEN Fail(r, 403, "FORBIDDEN")
         ELSE CreatePrepare(
                [r EXCEPT !.item = found,
                          !.createdAt = IF "createdAt" \in DOMAIN found[1]
                                        THEN found[1].createdAt ELSE NoTimestamp],
                now2)
    ELSE CreatePrepare([r EXCEPT !.isNewProject = TRUE, !.createdAt = now1], now2)

\* The response of a create or an update.
CreateResponse(r) ==
    [projectId |-> r.projectId, name |-> Trim(Prop(r.input, "name").s),
     description |-> DescriptionOf(r.input), createdAt |-> r.createdAt,
     updatedAt |-> r.updatedAt]

\* The request arrives; with no id or 'new' in the path a fresh id is drawn.
CreateStart(s, auth, pathId, body) ==
    /\ Free(s)
    /\ started' = started + 1
    /\ UNCHANGED <<table, bucket, frontend>>
    /\ LET r == CreateValidate(NewRequest("createUpdate", auth, pathId, body))
       IN  IF r.pc = "done"
           THEN /\ req' = [req EXCEPT ![s] = r]
                /\ UNCHANGED <<clock, uuidCount>>
           ELSE IF pathId = NoProjectId \/ pathId = "new"
           THEN /\ uuidCount < MaxUuid
                /\ uuidCount' = uuidCount + 1
                /\ \E d1 \in Ticks : \E d2 \in {d \in {0, 1} : clock + d1 + d <= MaxClock} :
                     /\ clock' = clock + d1 + d2
                     /\ req' = [req EXCEPT ![s] =
                           CreatePrepare([r EXCEPT !.projectId = Uuid(uuidCount + 1),
                                                   !.isNewProject = TRUE,
                                                   !.createdAt = clock + d1],
                                         clock + d1 + d2)]
           ELSE /\ req' = [req EXCEPT ![s] = [r EXCEPT !.projectId = pathId, !.pc = "get"]]
                /\ UNCHANGED <<clock, uuidCount>>

\* The GetCommand under (userId, projectId) answers.
CreateGet(s) ==
    /\ req[s].op = "createUpdate" /\ req[s].pc = "get"
    /\ \E d1 \in Ticks : \E d2 \in {d \in {0, 1} : clock + d1 + d <= MaxClock} :
         /\ clock' = clock + d1 + d2
         /\ req' = [req EXCEPT ![s] =
               CreateAfterGet(Call(req[s], "GetCommand"),
                              DdbGet(table, req[s].userId, req[s].projectId),
                              clock + d1, clock + d1 + d2)]
    /\ UNCHANGED <<table, bucket, uuidCount, started, frontend>>

\* Mutant of CreatePutItem: a new project's document is written first, in the
\* place of its record.
CreatePutItemBlobFirst(s) ==
    /\ req[s].op = "createUpdate" /\ req[s].pc = "putItem"
    /\ IF req[s].isNewProject
       THEN /\ bucket' = S3Put(bucket, req[s].s3Key, Stringify(EmptyFloorspaceJson))
            /\ table' = table
            /\ req' = [req EXCEPT ![s] =
                  [Call(req[s], "PutCommand") EXCEPT !.pc = "putObject"]]
       ELSE /\ table' = DdbPut(table, ProjectItem(req[s]))
            /\ bucket' = bucket
            /\ req' = [req EXCEPT ![s] =
                  Reply(Call(req[s], "PutCommand"), 200, CreateResponse(req[s]))]
    /\ UNCHANGED <<clock, uuidCount, started, frontend>>

\* The PutCommand writes the item.
CreatePutItem(s) ==
    /\ req[s].op = "createUpdate" /\ req[s].pc = "putItem"
    /\ table' = DdbPut(table, ProjectItem(req[s]))
    /\ req' = [req EXCEPT ![s] =
          IF req[s].isNewProject
          THEN [Call(req[s], "PutCommand") EXCEPT !.pc = "putObject"]
          ELSE Reply(Call(req[s], "PutCommand"), 200, CreateResponse(req[s]))]
    /\ UNCHANGED <<bucket, clock, uuidCount, started, frontend>>

\* Mutant of CreatePutObject: the project is reported created and no
\* document is written.
CreatePutObjectSkipped(s) ==
    /\ req[s].op = "createUpdate" /\ req[s].pc = "putObject"
    /\ req' = [req EXCEPT ![s] = Reply(req[s], 201, CreateResponse(req[s]))]
    /\ UNCHANGED <<table, bucket, clock, uuidCount, started, frontend>>

\* The PutObjectCommand writes the empty document of a new project.
CreatePutObject(s) ==
    /\ req[s].op = "createUpdate" /\ req[s].pc = "putObject"
    /\ bucket' = S3Put(bucket, req[s].s3Key, Stringify(EmptyFloorspaceJson))
    /\ req' = [req EXCEPT ![s] =
          Reply(Call(req[s], "PutObjectCommand"), 201, CreateResponse(req[s]))]
    /\ UNCHANGED <<table, clock, uuidCount, started, frontend>>

(***************************************************************************)
(* The checks getProject, deleteProject and uploadFloorspace share: the    *)
(* path parameter first, the verified subject second.                      *)
(***************************************************************************)
PathAndIdentity(r) ==
    IF r.pathId = NoProjectId THEN Fail(r, 400, "VALIDATION_ERROR")
    ELSE IF Sub(r.auth) = "" THEN Fail(r, 401, "UNAUTHORIZED")
    ELSE [r EXCEPT !.projectId = r.pathId, !.userId = Sub(r.auth), !.pc = "get"]

\* Mutant of Ownership: a missing item is reported as another owner's.
OwnershipMissingForbidden(r, found, next) ==
    IF found = << >> THEN Fail(r, 403, "FORBIDDEN")
    ELSE IF found[1].userId # r.userId THEN Fail(r, 403, "FORBIDDEN")
    ELSE [r EXCEPT !.item = found,
                   !.s3Key = ItemS3Key(found[1], r.userId, r.projectId),
                   !.pc = next]

\* The existence and ownership checks on the GetCommand's answer.
Ownership(r, found, next) ==
    IF found = << >> THEN Fail(r, 404, "NOT_FOUND")
    ELSE IF found[1].userId # r.userId THEN Fail(r, 403, "FORBIDDEN")
    ELSE [r EXCEPT !.item = found,
                   !.s3Key = ItemS3Key(found[1], r.userId, r.projectId),
                   !.pc = next]

(***************************************************************************)
(* getProject: GET /projects/{projectId}                                   *)
(***************************************************************************)
GetValidate(r) == PathAndIdentity(r)

\* The handler with the GetCommand's answer: the item's fields and a signed
\* URL for its blob.
GetAfterGet(r, found) ==
    LET o == Ownership(r, found, "sign")
    IN  IF o.pc = "done" THEN o
        ELSE Reply(Call(o, "getSignedUrl"), 200,
                   [view |-> View(found[1]), floorspaceUrl |-> PresignedUrl(o.s3Key)])

GetStart(s, auth, pathId) ==
    /\ Free(s)
    /\ started' = started + 1
    /\ req' = [req EXCEPT ![s] = GetValidate(NewRequest("getProject", auth, pathId, NoBody))]
    /\ UNCHANGED <<table, bucket, clock, uuidCount, frontend>>

GetGet(s) ==
    /\ req[s].op = "getProject" /\ req[s].pc = "get"
    /\ req' = [req EXCEPT ![s] =
          GetAfterGet(Call(req[s], "GetCommand"),
                      DdbGet(table, req[s].userId, req[s].projectId))]
    /\ UNCHANGED <<table, bucket, clock, uuidCount, started, frontend>>

(***************************************************************************)
(* listProjects: GET /projects                                             *)
(***************************************************************************)
ListValidate(r) ==
    IF Sub(r.auth) = "" THEN Fail(r, 401, "UNAUTHORIZED")
    ELSE [r EXCEPT !.userId = Sub(r.auth), !.pc = "query"]

\* The handler with the QueryCommand's Items.
ListAfterQuery(r, items) == Reply(r, 200, [projects |-> {View(i) : i \in items}])

ListStart(s, auth) ==
    /\ Free(s)
    /\ started' = started + 1
    /\ req' = [req EXCEPT ![s] =
          ListValidate(NewRequest("listProjects", auth, NoProjectId, NoBody))]
    /\ UNCHANGED <<table, bucket, clock, uuidCount, frontend>>

ListQuery(s) ==
    /\ req[s].op = "listProjects" /\ req[s].pc = "query"
    /\ req' = [req EXCEPT ![s] =
          ListAfterQuery(Call(req[s], "QueryCommand"), DdbQuery(table, req[s].userId))]
    /\ UNCHANGED <<table, bucket, clock, uuidCount, started, frontend>>

(***************************************************************************)
(* deleteProject: DELETE /projects/{projectId}                             *)
(***************************************************************************)
DeleteValidate(r) == PathAndIdentity(r)

DeleteAfterGet(r, found) == Ownership(r, found, "deleteObject")

DeleteStart(s, auth, pathId) ==
    /\ Free(s)
    /\ started' = started + 1
    /\ req' = [req EXCEPT ![s] =
          DeleteValidate(NewRequest("deleteProject", auth, pathId, NoBody))]
    /\ UNCHANGED <<table, bucket, clock, uuidCount, frontend>>

DeleteGet(s) ==
    /\ req[s].op = "deleteProject" /\ req[s].pc = "get"
    /\ req' = [req EXCEPT ![s] =
          DeleteAfterGet(Call(req[s], "GetCommand"),
                         DdbGet(table, req[s].userId, req[s].projectId))]
    /\ UNCHANGED <<table, bucket, clock, uuidCount, started, frontend>>

\* Mutant of DeleteObject: deleting a blob that is not there is an error, which
\* the handler's catch block answers.
DeleteObjectMissingIsError(s) ==
    /\ req[s].op = "deleteProject" /\ req[s].pc = "deleteObject"
    /\ bucket' = S3Delete(bucket, req[s].s3Key)
    /\ req' = [req EXCEPT ![s] =
          IF req[s].s3Key \in DOMAIN bucket
          THEN [Call(req[s], "DeleteObjectCommand") EXCEPT !.pc = "deleteItem"]
          ELSE Fail(Call(req[s], "DeleteObjectCommand"), 500, "INTERNAL_ERROR")]
    /\ UNCHANGED <<table, clock, uuidCount, started, frontend>>

\* Mutant of DeleteObject: the record is removed first and the blob second.
DeleteObjectRecordFirst(s) ==
    /\ req[s].op = "deleteProject" /\ req[s].pc = "deleteObject"
    /\ table' = DdbDelete(table, req[s].userId, req[s].projectId)
    /\ req' = [req EXCEPT ![s] =
          [Call(req[s], "DeleteObjectCommand") EXCEPT !.pc = "deleteItem"]]
    /\ UNCHANGED <<bucket, clock, uuidCount, started, frontend>>

\* The DeleteObjectCommand removes the blob.
DeleteObject(s) ==
    /\ req[s].op = "deleteProject" /\ req[s].pc = "deleteObject"
    /\ bucket' = S3Delete(bucket, req[s].s3Key)
    /\ req' = [req EXCEPT ![s] =
          [Call(req[s], "DeleteObjectCommand") EXCEPT !.pc = "deleteItem"]]
    /\ UNCHANGED <<table, clock, uuidCount, started, frontend>>

\* The DeleteCommand removes the item.
DeleteItem(s) ==
    /\ req[s].op = "deleteProject" /\ req[s].pc = "deleteItem"
    /\ table' = DdbDelete(table, req[s].userId, req[s].projectId)
    /\ req' = [req EXCEPT ![s] =
          Reply(Call(req[s], "DeleteCommand"), 200, [success |-> TRUE])]
    /\ UNCHANGED <<bucket, clock, uuidCount, started, frontend>>

(***************************************************************************)
(* uploadFloorspace: POST /projects/{projectId}/upload                     *)
(***************************************************************************)
\* The checks before the first store call.
UploadValidate(r) ==
    LET p == PathAndIdentity(r)
        parsed == JSONparse(r.body)
    IN  IF p.pc = "done" THEN p
        ELSE IF r.body = NoBody THEN Fail(r, 400, "VALIDATION_ERROR")
        ELSE IF ~parsed.ok THEN Fail(r, 400, "VALIDATION_ERROR")
        ELSE IF PropThrows(parsed.value) THEN Fail(r, 500, "INTERNAL_ERROR")
        ELSE IF Falsy(Prop(parsed.value, "floorspaceJson"))
        THEN Fail(r, 400, "VALIDATION_ERROR")
        ELSE [p EXCEPT !.input = parsed.value]

UploadAfterGet(r, found) == Ownership(r, found, "putObject")

UploadStart(s, auth, pathId, body) ==
    /\ Free(s)
    /\ started' = started + 1
    /\ req' = [req EXCEPT ![s] =
          UploadValidate(NewRequest("uploadFloorspace", auth, pathId, body))]
    /\ UNCHANGED <<table, bucket, clock, uuidCount, frontend>>

UploadGet(s) ==
    /\ req[s].op = "uploadFloorspace" /\ req[s].pc = "get"
    /\ req' = [req EXCEPT ![s] =
          UploadAfterGet(Call(req[s], "GetCommand"),
                         DdbGet(table, req[s].userId, req[s].projectId))]
    /\ UNCHANGED <<table, bucket, clock, uuidCount, started, frontend>>

\* The body of the PutObjectCommand.
UploadBody(r) == Stringify(Prop(r.input, "floorspaceJson"))

\* The PutObjectCommand overwrites the blob; updatedAt is read after it.
UploadPutObject(s) ==
    /\ req[s].op = "uploadFloorspace" /\ req[s].pc = "putObject"
    /\ bucket' = S3Put(bucket, req[s].s3Key, UploadBody(req[s]))
    /\ \E d \in Ticks :
         /\ clock' = clock + d
         /\ req' = [req EXCEPT ![s] =
               [Call(req[s], "PutObjectCommand") EXCEPT !.updatedAt = clock + d,
                                                         !.pc = "update"]]
    /\ UNCHANGED <<table, uuidCount, started, frontend>>

\* The UpdateCommand sets updatedAt.
UploadUpdate(s) ==
    /\ req[s].op = "uploadFloorspace" /\ req[s].pc = "update"
    /\ table' = DdbUpdate(table, req[s].userId, req[s].projectId, req[s].updatedAt)
    /\ req' = [req EXCEPT ![s] =
          Reply(Call(req[s], "UpdateCommand"), 200,
                [success |-> TRUE, updatedAt |-> req[s].updatedAt])]
    /\ UNCHANGED <<bucket, clock, uuidCount, started, frontend>>

(***************************************************************************)
(* The service: well-formed requests of verified callers, one at a time    *)
(* (Spec).                                                                 *)
(***************************************************************************)
\* The ids a caller can name: the ones it chose and the ones it was given.
KnownIds == Ids \cup {Uuid(i) : i \in 1..uuidCount}

\* The request in slot s takes its next step.
Step(s) ==
    \/ CreateGet(s)
    \/ CreatePutItem(s)
    \/ CreatePutObject(s)
    \/ GetGet(s)
    \/ ListQuery(s)
    \/ DeleteGet(s)
    \/ DeleteObject(s)
    \/ DeleteItem(s)
    \/ UploadGet(s)
    \/ UploadPutObject(s)
    \/ UploadUpdate(s)

\* A request arrives in slot s: its context, path and body are the caller's.
Start(s, auths, createBodies, uploadBodies) ==
    \/ \E auth \in auths, pathId \in {NoProjectId, "new"} \cup KnownIds,
          body \in createBodies : CreateStart(s, auth, pathId, body)
    \/ \E auth \in auths, pathId \in {NoProjectId} \cup KnownIds :
          GetStart(s, auth, pathId)
    \/ \E auth \in auths : ListStart(s, auth)
    \/ \E auth \in auths, pathId \in {NoProjectId} \cup KnownIds :
          DeleteStart(s, auth, pathId)
    \/ \E auth \in auths, pathId \in {NoProjectId} \cup KnownIds,
          body \in uploadBodies : UploadStart(s, auth, pathId, body)

\* Well-formed requests of verified callers.
Verified == {Authorized(u) : u \in Users}
ValidCreateBodies ==
    {Stringify(v) : v \in {i \in ProjectInputs :
        ~PropThrows(i) /\ Prop(i, "name").t = "str" /\ Trim(Prop(i, "name").s) # << >>}}
ValidUploadBodies ==
    {Stringify(v) : v \in {JObj(<< <<"floorspaceJson", p>> >>) : p \in TruthyPayloads}}

Next ==
    \/ started < MaxRequests /\ Start(1, Verified, ValidCreateBodies, ValidUploadBodies)
    \/ Step(1)

Spec == Init /\ [][Next]_vars

(***************************************************************************)
(* The service under every request of the model, malformed ones and        *)
(* unverified callers included, one at a time (SpecInputs).                *)
(***************************************************************************)
\* Requests started in one behaviour of SpecInputs.
MaxInputRequests == 2

NextInputs ==
    \/ started < MaxInputRequests /\ Start(1, AuthContexts, CreateBodies, UploadBodies)
    \/ Step(1)

SpecInputs == Init /\ [][NextInputs]_vars

(***************************************************************************)
(* One caller's requests on one project id, two at a time: the steps of    *)
(* the two handlers interleave (SpecConc).                                 *)
(***************************************************************************)
\* Requests started in one behaviour of SpecConc.
MaxConcRequests == 4

ConcCreateBodies == {Stringify(JObj(<< <<"name", JStr(<<"B">>)>>,
                                       <<"description", JStr(<<" ", "d">>)>> >>))}
ConcUploadBodies == {Stringify(JObj(<< <<"floorspaceJson", Doc1>> >>))}

\* A request of SpecConc names a project id.
StartConc(s) ==
    \/ \E pathId \in Ids, body \in ConcCreateBodies :
          CreateStart(s, Authorized("u1"), pathId, body)
    \/ \E pathId \in Ids : GetStart(s, Authorized("u1"), pathId)
    \/ ListStart(s, Authorized("u1"))
    \/ \E pathId \in Ids : DeleteStart(s, Authorized("u1"), pathId)
    \/ \E pathId \in Ids, body \in ConcUploadBodies :
          UploadStart(s, Authorized("u1"), pathId, body)

ConcSlots == {1, 2}

NextConc ==
    \E s \in ConcSlots :
        \/ started < MaxConcRequests /\ StartConc(s)
        \/ Step(s)

SpecConc == Init /\ [][NextConc]_vars

(***************************************************************************)
(* Well-formed requests of verified callers, one at a time, with store     *)
(* calls that may reject (SpecFail).                                       *)
(***************************************************************************)
\* Requests started in one behaviour of SpecFail.
MaxFailRequests == 2

\* The store call the handler is about to make.
CommandAt(r) ==
    CASE r.pc = "get" -> "GetCommand"
      [] r.pc = "query" -> "QueryCommand"
      [] r.pc = "putItem" -> "PutCommand"
      [] r.pc = "putObject" -> "PutObjectCommand"
      [] r.pc = "deleteObject" -> "DeleteObjectCommand"
      [] r.pc = "deleteItem" -> "DeleteCommand"
      [] r.pc = "update" -> "UpdateCommand"

\* The store call of slot s rejects and leaves its store as it was.
StoreFails(s) ==
    /\ req[s].pc \in {"get", "query", "putItem", "putObject", "deleteObject",
                      "deleteItem", "update"}
    /\ req' = [req EXCEPT ![s] = Rejected(req[s], CommandAt(req[s]))]
    /\ UNCHANGED <<table, bucket, clock, uuidCount, started, frontend>>

NextFail ==
    \/ started < MaxFailRequests /\ Start(1, Verified, ValidCreateBodies, ValidUploadBodies)
    \/ Step(1)
    \/ StoreFails(1)

SpecFail == Init /\ [][NextFail]_vars

(***************************************************************************)
(* ProjectDashboard: the list of the signed-in user's projects. Its api     *)
(* calls run the handlers in one invocation slot; a call settles when the  *)
(* handler has returned. One call of the dashboard is in flight at a time. *)
(***************************************************************************)
\* The request context the gateway builds from the dashboard's token.
DashboardUser == Authorized("u1")

\* axios rejects the promise for a status outside 2xx.
Rejects(resp) == resp.statusCode < 200 \/ resp.statusCode >= 300

\* err.response.data.error.message: the model's responses carry the code.
ErrorMessage(resp) == resp.body.error.code

\* The message fetchProjects sets for a rejected call.
FetchErrorText(resp) ==
    IF resp.statusCode = 401 THEN "Session expired. Please log in again."
    ELSE ErrorMessage(resp)

\* The message handleDeleteProject sets for a rejected call.
DeleteErrorText(resp) ==
    IF resp.statusCode = 401 THEN "Session expired. Please log in again."
    ELSE IF resp.statusCode = 403 THEN "You don't have permission to delete this project."
    ELSE IF resp.statusCode = 404 THEN "Project not found."
    ELSE ErrorMessage(resp)

\* The grid of ProjectCards is rendered.
GridShown(d) == ~d.loading /\ d.error = "" /\ d.projects # {}

\* The projects the dashboard displays.
Displayed(d) == IF GridShown(d) THEN d.projects ELSE {}

\* fetchProjects (on mount, after a creation, on Try Again) up to the call of
\* api.listProjects, which starts the listProjects handler.
DashboardFetch(s) ==
    /\ dashboard.call = NoApiCall /\ Free(s)
    /\ started' = started + 1
    /\ dashboard' = [dashboard EXCEPT !.loading = TRUE, !.error = "",
                                      !.call = [kind |-> "fetch", projectId |-> ""]]
    /\ req' = [req EXCEPT ![s] =
          ListValidate(NewRequest("listProjects", DashboardUser, NoProjectId, NoBody))]
    /\ UNCHANGED <<table, bucket, clock, uuidCount, editor>>

\* api.listProjects settles: setProjects, or setError, and setLoading(false).
DashboardFetchSettled(s) ==
    /\ dashboard.call.kind = "fetch" /\ req[s].pc = "done"
    /\ dashboard' =
          IF Rejects(req[s].resp)
          THEN [dashboard EXCEPT !.error = FetchErrorText(req[s].resp),
                                 !.loading = FALSE, !.call = NoApiCall]
          ELSE [dashboard EXCEPT !.projects = req[s].resp.body.projects,
                                 !.loading = FALSE, !.call = NoApiCall]
    /\ UNCHANGED <<table, bucket, clock, uuidCount, started, req, editor>>

\* handleDeleteProject, confirmed on the card of a displayed project, up to
\* the call of api.deleteProject, which starts the deleteProject handler.
DashboardDelete(s, projectId) ==
    /\ dashboard.call = NoApiCall /\ Free(s)
    /\ GridShown(dashboard)
    /\ \E p \in dashboard.projects : p.projectId = projectId
    /\ started' = started + 1
    /\ dashboard' = [dashboard EXCEPT !.call = [kind |-> "delete", projectId |-> projectId]]
    /\ req' = [req EXCEPT ![s] =
          DeleteValidate(NewRequest("deleteProject", DashboardUser, projectId, NoBody))]
    /\ UNCHANGED <<table, bucket, clock, uuidCount, editor>>

\* api.deleteProject settles: the project is filtered out of the list, or
\* the error message is set.
DashboardDeleteSettled(s) ==
    /\ dashboard.call.kind = "delete" /\ req[s].pc = "done"
    /\ dashboard' =
          IF Rejects(req[s].resp)
          THEN [dashboard EXCEPT !.error = DeleteErrorText(req[s].resp),
                                 !.call = NoApiCall]
          ELSE [dashboard EXCEPT
                  !.projects = {p \in @ : p.projectId # dashboard.call.projectId},
                  !.call = NoApiCall]
    /\ UNCHANGED <<table, bucket, clock, uuidCount, started, req, editor>>

\* Api calls started in one behaviour of SpecDashboard.
MaxDashRequests == 4

\* The dashboard's calls run in slot 1; the same user's other client (another
\* tab, the editor) has its requests in slot 2.
NextDashboard ==
    \/ started < MaxDashRequests /\ DashboardFetch(1)
    \/ DashboardFetchSettled(1)
    \/ started < MaxDashRequests /\ \E id \in KnownIds : DashboardDelete(1, id)
    \/ DashboardDeleteSettled(1)
    \/ started < MaxDashRequests
          /\ Start(2, {DashboardUser}, ConcCreateBodies, ConcUploadBodies)
    \/ \E s \in ConcSlots : Step(s)
    \/ StoreFails(1)

SpecDashboard == Init /\ [][NextDashboard]_vars

(***************************************************************************)
(* FloorspaceEditorPage: the editor of one project. loadProject gets the   *)
(* project and fetches its document through the signed URL; handleSave     *)
(* uploads the document, on the Save button and on the auto-save timer.    *)
(* The editor's api calls run the handlers in the invocations 1 and 2; the *)
(* same user's other client has its requests in invocation 3.              *)
(***************************************************************************)
\* The invocations that run the editor's api calls.
EditorSlots == {1, 2}

\* The invocation of the other client.
OtherSlot == 3

\* The message loadProject sets when api.getProject rejects.
LoadErrorText(resp) ==
    IF resp.statusCode = 404 THEN "Project not found."
    ELSE IF resp.statusCode = 403 THEN "You don't have permission to access this project."
    ELSE ErrorMessage(resp)

\* The message handleSave sets when api.uploadFloorspace rejects.
SaveErrorText(resp) ==
    IF resp.statusCode = 403 THEN "You don't have permission to save this project."
    ELSE IF resp.statusCode = 400 THEN "Invalid floorspace data."
    ELSE ErrorMessage(resp)

\* The message of loadProject's catch block for an error with no response.
LoadFailedText == "Failed to load project. Please try again."

\* The key a signed URL reads.
FetchKey(url) ==
    CHOOSE q \in {S3Key(u, i) : u \in Users, i \in Ids \cup {Uuid(n) : n \in 1..MaxUuid}} :
        PresignedUrl(q) = url

\* The error page is rendered in the place of the editor.
ErrorPage(e) == ~e.loading /\ e.error # "" /\ e.project = << >>

\* The toolbar and the iframe are rendered.
EditorShown(e) == ~e.loading /\ ~ErrorPage(e)

\* The auto-save effect after floorspaceData was set: the pending timer is
\* cleared, and a new one is started for a truthy document.
AutoSaveArmed(data) == ~Falsy(data)

\* loadProject on mount, up to the call of api.getProject.
EditorMount(s, projectId) ==
    /\ editor.phase = "unmounted" /\ Free(s)
    /\ started' = started + 1
    /\ editor' = [editor EXCEPT !.projectId = projectId, !.loading = TRUE,
                                !.phase = "getProject"]
    /\ req' = [req EXCEPT ![s] =
          GetValidate(NewRequest("getProject", DashboardUser, projectId, NoBody))]
    /\ UNCHANGED <<table, bucket, clock, uuidCount, dashboard>>

\* api.getProject settles: the error is set, or the project is set and the
\* document is fetched through floorspaceUrl; with no URL the editor starts
\* from the empty document.
EditorProjectSettled(s) ==
    /\ editor.phase = "getProject" /\ req[s].op = "getProject" /\ req[s].pc = "done"
    /\ editor' =
          IF Rejects(req[s].resp)
          THEN [editor EXCEPT !.error = LoadErrorText(req[s].resp),
                              !.loading = FALSE, !.phase = "failed"]
          ELSE IF req[s].resp.body.floorspaceUrl = ""
          THEN [editor EXCEPT !.project = <<req[s].resp.body>>,
                              !.floorspaceData = EmptyFloorspaceData,
                              !.autoSave = AutoSaveArmed(EmptyFloorspaceData),
                              !.error = "", !.loading = FALSE,
                              !.fetched = "noUrl", !.phase = "ready"]
          ELSE [editor EXCEPT !.project = <<req[s].resp.body>>, !.phase = "fetch"]
    /\ UNCHANGED <<table, bucket, clock, uuidCount, started, req, dashboard>>

\* Mutant of EditorFetchSettled: a response that is not ok is a load error.
EditorFetchSettledStrict ==
    /\ editor.phase = "fetch"
    /\ LET key == FetchKey(editor.project[1].floorspaceUrl)
       IN  \/ /\ key \in DOMAIN bucket
              /\ editor' = [editor EXCEPT
                    !.floorspaceData = JSONparse(bucket[key]).value,
                    !.autoSave = AutoSaveArmed(JSONparse(bucket[key]).value),
                    !.error = "", !.loading = FALSE,
                    !.fetched = "ok", !.phase = "ready"]
           \/ /\ key \notin DOMAIN bucket
              /\ editor' = [editor EXCEPT
                    !.error = LoadFailedText, !.loading = FALSE,
                    !.fetched = "notOk", !.phase = "ready"]
           \/ editor' = [editor EXCEPT
                    !.error = LoadFailedText, !.loading = FALSE,
                    !.fetched = "rejected", !.phase = "ready"]
    /\ UNCHANGED <<table, bucket, clock, uuidCount, started, req, dashboard>>

\* fetch(floorspaceUrl) settles: the blob's JSON for a response that is ok,
\* the empty document for one that is not (no object at the key), and the
\* catch block's message when fetch rejects (the network fails).
EditorFetchSettled ==
    /\ editor.phase = "fetch"
    /\ LET key == FetchKey(editor.project[1].floorspaceUrl)
       IN  \/ /\ key \in DOMAIN bucket
              /\ editor' = [editor EXCEPT
                    !.floorspaceData = JSONparse(bucket[key]).value,
                    !.autoSave = AutoSaveArmed(JSONparse(bucket[key]).value),
                    !.error = "", !.loading = FALSE,
                    !.fetched = "ok", !.phase = "ready"]
           \/ /\ key \notin DOMAIN bucket
              /\ editor' = [editor EXCEPT
                    !.floorspaceData = EmptyFloorspaceData,
                    !.autoSave = AutoSaveArmed(EmptyFloorspaceData),
                    !.error = "", !.loading = FALSE,
                    !.fetched = "notOk", !.phase = "ready"]
           \/ editor' = [editor EXCEPT
                    !.error = LoadFailedText, !.loading = FALSE,
                    !.fetched = "rejected", !.phase = "ready"]
    /\ UNCHANGED <<table, bucket, clock, uuidCount, started, req, dashboard>>

\* The documents the embedded editor posts in a 'floorspace-update' message.
EditorUpdates == {Doc1}

\* The message listener sets floorspaceData, and the auto-save effect runs.
EditorUpdate(data) ==
    /\ editor.phase = "ready" /\ EditorShown(editor)
    /\ editor.floorspaceData # data
    /\ editor' = [editor EXCEPT !.floorspaceData = data,
                                !.autoSave = AutoSaveArmed(data)]
    /\ UNCHANGED <<table, bucket, clock, uuidCount, started, req, dashboard>>

\* handleSave up to the call of api.uploadFloorspace, in invocation s.
HandleSave(s) ==
    /\ editor.projectId # "" /\ ~Falsy(editor.floorspaceData)
    /\ s \notin editor.saves /\ Free(s)
    /\ started' = started + 1
    /\ req' = [req EXCEPT ![s] =
          UploadValidate(NewRequest("uploadFloorspace", DashboardUser, editor.projectId,
                                    Stringify(UploadRequestOf(editor.floorspaceData))))]
    /\ UNCHANGED <<table, bucket, clock, uuidCount, dashboard>>

\* The Save button, which is disabled while saveStatus is 'saving'.
EditorSave(s) ==
    /\ editor.phase = "ready" /\ EditorShown(editor)
    /\ editor.saveStatus # "saving"
    /\ HandleSave(s)
    /\ editor' = [editor EXCEPT !.saveStatus = "saving", !.saves = @ \cup {s}]

\* The auto-save timer fires and calls handleSave.
EditorAutoSave(s) ==
    /\ editor.autoSave
    /\ HandleSave(s)
    /\ editor' = [editor EXCEPT !.saveStatus = "saving", !.saves = @ \cup {s},
                                !.autoSave = FALSE]

\* api.uploadFloorspace settles: 'saved' and a 2-second timer, or 'error' and
\* the error message.
EditorSaveSettled(s) ==
    /\ s \in editor.saves /\ req[s].pc = "done"
    /\ editor' =
          IF Rejects(req[s].resp)
          THEN [editor EXCEPT !.saveStatus = "error", !.saves = @ \ {s},
                              !.error = SaveErrorText(req[s].resp)]
          ELSE [editor EXCEPT !.saveStatus = "saved", !.saves = @ \ {s},
                              !.resets = @ + 1]
    /\ UNCHANGED <<table, bucket, clock, uuidCount, started, req, dashboard>>

\* A 2-second timer fires: setSaveStatus('idle').
EditorReset ==
    /\ editor.resets > 0
    /\ editor' = [editor EXCEPT !.saveStatus = "idle", !.resets = @ - 1]
    /\ UNCHANGED <<table, bucket, clock, uuidCount, started, req, dashboard>>

\* Api calls started in one behaviour of SpecEditor.
MaxEditorRequests == 4

NextEditor ==
    \/ started < MaxEditorRequests /\ \E id \in Ids : EditorMount(1, id)
    \/ EditorProjectSettled(1)
    \/ EditorFetchSettled
    \/ \E data \in EditorUpdates : EditorUpdate(data)
    \/ started < MaxEditorRequests /\ \E s \in EditorSlots : EditorSave(s)
    \/ started < MaxEditorRequests /\ \E s \in EditorSlots : EditorAutoSave(s)
    \/ \E s \in EditorSlots : EditorSaveSettled(s)
    \/ EditorReset
    \/ started < MaxEditorRequests /\ StartConc(OtherSlot)
    \/ \E s \in Slots : Step(s)
    \/ StoreFails(1)

SpecEditor == Init /\ [][NextEditor]_vars

(***************************************************************************)
(* One caller's requests on one project id, each in an invocation of its   *)
(* own, so that every request of the behaviour stays on record, and up to  *)
(* three of them in flight together (SpecRace).                            *)
(***************************************************************************)
NextRace ==
    \E s \in Slots :
        \/ req[s].pc = "idle" /\ StartConc(s)
        \/ Step(s)

SpecRace == Init /\ [][NextRace]_vars

(***************************************************************************)
(* One caller's requests on one project id, one after the other, each in   *)
(* an invocation of its own, so that the earlier requests stay on record,  *)
(* with store calls that may reject (SpecRerun).                           *)
(***************************************************************************)
\* Slot s is the next to be used: the earlier ones have returned.
NextInLine(s) ==
    /\ req[s].pc = "idle"
    /\ \A t \in Slots : t < s => req[t].pc = "done"

NextRerun ==
    \E s \in Slots :
        \/ NextInLine(s) /\ StartConc(s)
        \/ Step(s)
        \/ StoreFails(s)

SpecRerun == Init /\ [][NextRerun]_vars

(***************************************************************************)
(* Two calls of the owner, in flight together, on a record that a creation *)
(* stored before them; every request stays on record (SpecPair).           *)
(***************************************************************************)
\* The invocations of the two later calls.
PairSlots == {2, 3}

\* The creation of the record, in slot 1.
StartFirst ==
    /\ req[1].pc = "idle"
    /\ \E pathId \in Ids, body \in ConcCreateBodies :
          CreateStart(1, Authorized("u1"), pathId, body)

\* One of the two later calls arrives, after the creation has returned.
StartPair(s) ==
    /\ req[s].pc = "idle" /\ req[1].pc = "done"
    /\ \/ \E pathId \in Ids, body \in ValidCreateBodies :
             CreateStart(s, Authorized("u1"), pathId, body)
       \/ \E pathId \in Ids : GetStart(s, Authorized("u1"), pathId)
       \/ ListStart(s, Authorized("u1"))
       \/ \E pathId \in Ids : DeleteStart(s, Authorized("u1"), pathId)
       \/ \E pathId \in Ids, body \in ConcUploadBodies :
             UploadStart(s, Authorized("u1"), pathId, body)

NextPair ==
    \/ StartFirst
    \/ \E s \in PairSlots : StartPair(s)
    \/ \E s \in Slots : Step(s)

SpecPair == Init /\ [][NextPair]_vars

(***************************************************************************)
(* Requests of the verified callers on every id they know: a first request *)
(* alone, then two in flight together, on the same key or on different     *)
(* keys; every request stays on record (SpecKeys).                         *)
(***************************************************************************)
NextKeys ==
    \/ req[1].pc = "idle" /\ Start(1, Verified, ConcCreateBodies, ConcUploadBodies)
    \/ \E s \in PairSlots :
          /\ req[s].pc = "idle" /\ req[1].pc = "done"
          /\ Start(s, Verified, ConcCreateBodies, ConcUploadBodies)
    \/ \E s \in Slots : Step(s)

SpecKeys == Init /\ [][NextKeys]_vars

(***************************************************************************)
(* Properties.                                                             *)
(***************************************************************************)
Done(s) == req[s].pc = "done"
Status(s) == req[s].resp.statusCode
\* The handler of slot s reached its existence lookup.
LookedUp(s) == Len(req[s].calls) >= 1 /\ req[s].calls[1] = "GetCommand"
\* Another owner stores a record under the id the request of slot s names.
OwnedByAnother(s) ==
    \E a \in Users \ {req[s].userId} : <<a, req[s].projectId>> \in DOMAIN table
ByRecordId == {"getProject", "deleteProject", "uploadFloorspace"}

\* C1: a get-one, delete or upload-blob call by verified subject B on the id
\* of a record stored under another owner A is answered 403 FORBIDDEN.
C1_CrossOwnerForbidden ==
    \A s \in Slots :
        (Done(s) /\ req[s].op \in ByRecordId /\ LookedUp(s) /\ OwnedByAnother(s))
            => Status(s) = 403

\* The records of the owners other than u, and the blobs at their paths.
OthersRecords(tbl, u) == [k \in {kk \in DOMAIN tbl : kk[1] # u} |-> tbl[k]]
OthersPaths(tbl, u) ==
    {S3Key(a, i) : a \in Users \ {u}, i \in Ids \cup {Uuid(i) : i \in 1..MaxUuid}}
        \cup {ItemS3Key(tbl[k], k[1], k[2]) : k \in {kk \in DOMAIN tbl : kk[1] # u}}
OthersBlobs(bkt, tbl, u) == [k \in DOMAIN bkt \cap OthersPaths(tbl, u) |-> bkt[k]]
\* The table without the records of the owners other than u.
OwnRecords(tbl, u) == [k \in {kk \in DOMAIN tbl : kk[1] = u} |-> tbl[k]]

\* The request r after its lookup, had the lookup been made on tbl.
AfterLookup(r, tbl, now1, now2) ==
    CASE r.op = "createUpdate" ->
            CreateAfterGet(Call(r, "GetCommand"), DdbGet(tbl, r.userId, r.projectId),
                           now1, now2)
      [] r.op = "getProject" ->
            GetAfterGet(Call(r, "GetCommand"), DdbGet(tbl, r.userId, r.projectId))
      [] r.op = "deleteProject" ->
            DeleteAfterGet(Call(r, "GetCommand"), DdbGet(tbl, r.userId, r.projectId))
      [] r.op = "uploadFloorspace" ->
            UploadAfterGet(Call(r, "GetCommand"), DdbGet(tbl, r.userId, r.projectId))
      [] r.op = "listProjects" ->
            ListAfterQuery(Call(r, "QueryCommand"), DdbQuery(tbl, r.userId))

C3_CrossOwnerCreateForbidden ==
    /\ \A s \in Slots :
          (/\ req[s].op = "createUpdate" /\ LookedUp(s) /\ req[s].item = << >>
           /\ OwnedByAnother(s))
              => Done(s) /\ Status(s) = 403
    /\ \A k1, k2 \in DOMAIN table : k1[2] = k2[2] => k1 = k2

SentTitle(s) == Prop(JSONparse(req[s].body).value, "name")
\* The path {owner}/{id}/floorspace.json.
BlobPath(owner, id) == owner \o "/" \o id \o "/floorspace.json"

\* C5: a create-or-update on the creation path that answers 201 leaves one
\* new record with owner = caller, the trimmed title and blobPath =
\* owner/recordId/floorspace.json, under the caller's id when it named one, and
\* the default empty document at that path.
C5_CreationCompleteness ==
    /\ [](\A s \in Slots :
            (Done(s) /\ req[s].op = "createUpdate" /\ Status(s) = 201) =>
                LET k == <<Sub(req[s].auth), req[s].projectId>> IN
                /\ req[s].pathId \notin {NoProjectId, "new"} => req[s].projectId = req[s].pathId
                /\ k \in DOMAIN table
                /\ table[k].userId = Sub(req[s].auth)
                /\ table[k].projectId = req[s].projectId
                /\ table[k].name = Trim(SentTitle(s).s)
                /\ table[k].s3Key = BlobPath(k[1], k[2])
                /\ BlobPath(k[1], k[2]) \in DOMAIN bucket
                /\ JSONparse(bucket[BlobPath(k[1], k[2])]) =
                      [ok |-> TRUE, value |-> EmptyFloorspaceJson])
    /\ [][\A s \in Slots :
            (req[s].op = "createUpdate" /\ req[s].isNewProject /\ req'[s] # req[s]) =>
                LET k == <<req[s].userId, req[s].projectId>> IN
                /\ req[s].pc = "putItem" =>
                      /\ k \notin DOMAIN table
                      /\ DOMAIN table' = DOMAIN table \cup {k}
                      /\ \A j \in DOMAIN table : table'[j] = table[j]
                      /\ bucket' = bucket
                /\ req[s].pc = "putObject" =>
                      /\ table' = table
                      /\ DOMAIN bucket' = DOMAIN bucket \cup {BlobPath(k[1], k[2])}
                      /\ \A q \in DOMAIN bucket \ {BlobPath(k[1], k[2])} : bucket'[q] = bucket[q]
                      /\ req'[s].resp.statusCode = 201]_vars

\* C5 witness: a 201 for a title that needed trimming, under an id the caller
\* named.
C5_Witness ==
    \E s \in Slots :
        /\ Done(s) /\ req[s].op = "createUpdate" /\ Status(s) = 201
        /\ req[s].pathId \in Ids
        /\ SentTitle(s).s # Trim(SentTitle(s).s)

\* C6: a delete answered 200 leaves no record under (owner, id) and no blob at
\* the record's blobPath, and a get-one by the owner on an id with no record
\* is answered 404.
C6_DeletionCompleteness ==
    /\ \A s \in Slots :
          (Done(s) /\ req[s].op = "deleteProject" /\ Status(s) = 200) =>
              /\ <<req[s].userId, req[s].projectId>> \notin DOMAIN table
              /\ req[s].item[1].s3Key \notin DOMAIN bucket
    /\ \A s \in Slots :
          (/\ Done(s) /\ req[s].op = "getProject" /\ LookedUp(s)
           /\ <<req[s].userId, req[s].projectId>> \notin DOMAIN table)
              => Status(s) = 404

\* C6 witness: a delete of a record that had a blob was answered 200.
C6_Witness ==
    \E s \in Slots :
        /\ Done(s) /\ req[s].op = "deleteProject" /\ Status(s) = 200
        /\ req[s].calls = <<"GetCommand", "DeleteObjectCommand", "DeleteCommand">>

\* What an upload request sends as floorspaceJson.
SentPayload(s) == Prop(JSONparse(req[s].body).value, "floorspaceJson")
\* The request of slot s is an upload of a JSON value by the owner of the
\* record it names.
UploadOfPayload(s) ==
    /\ req[s].op = "uploadFloorspace"
    /\ Sub(req[s].auth) # "" /\ req[s].pathId # NoProjectId
    /\ JSONparse(req[s].body).ok
    /\ JSONparse(req[s].body).value.t = "obj"
    /\ SentPayload(s) # Undef
    /\ <<Sub(req[s].auth), req[s].pathId>> \in DOMAIN table

\* C7: an upload of any JSON value (0, false, the empty string and null
\* included) to a record of the caller is answered 200, and the blob at the
\* record's path then parses to that value.
C7_UploadRoundTrip ==
    \A s \in Slots :
        (Done(s) /\ UploadOfPayload(s)) =>
            /\ Status(s) = 200
            /\ JSONparse(bucket[BlobPath(Sub(req[s].auth), req[s].pathId)]) =
                  [ok |-> TRUE, value |-> SentPayload(s)]

\* C8: every stored s3Key is owner/id/floorspace.json, every handler addresses
\* the blob of (owner, id) by that path, also for an item that stores no
\* s3Key, and nothing is stored in the bucket under another key.
C8_PathDeterminism ==
    /\ \A k \in DOMAIN table :
          "s3Key" \in DOMAIN table[k] => table[k].s3Key = BlobPath(k[1], k[2])
    /\ \A s \in Slots :
          req[s].s3Key # "" => req[s].s3Key = BlobPath(req[s].userId, req[s].projectId)
    /\ \A q \in DOMAIN bucket :
          \E u \in Users, i \in Ids \cup {Uuid(n) : n \in 1..uuidCount} : q = BlobPath(u, i)

\* C8 witness: a handler addressed the blob of an item that stores no s3Key.
C8_Witness ==
    \E s \in Slots :
        /\ req[s].item # << >>
        /\ "s3Key" \notin DOMAIN req[s].item[1]
        /\ req[s].s3Key # ""

\* A create-or-update of a verified caller whose title is empty or only
\* white space.
BlankTitle(s) ==
    /\ req[s].op = "createUpdate" /\ Sub(req[s].auth) # ""
    /\ JSONparse(req[s].body).ok
    /\ JSONparse(req[s].body).value.t = "obj"
    /\ SentTitle(s).t = "str"
    /\ \A i \in 1..Len(SentTitle(s).s) : SentTitle(s).s[i] = " "
\* An upload-blob of a verified caller with no body or no floorspaceJson.
NoPayload(s) ==
    /\ req[s].op = "uploadFloorspace" /\ Sub(req[s].auth) # ""
    /\ req[s].pathId # NoProjectId
    /\ \/ req[s].body = NoBody
       \/ /\ JSONparse(req[s].body).ok
          /\ JSONparse(req[s].body).value.t = "obj"
          /\ SentPayload(s) = Undef

\* C9: a create-or-update with an empty or white-space title and an upload
\* with no body or no floorspaceJson are answered 400 without a store call,
\* and a step that answers 400 leaves both stores as they were.
C9_ValidationWritesNothing ==
    /\ [](\A s \in Slots :
            (BlankTitle(s) \/ NoPayload(s)) =>
                Done(s) /\ Status(s) = 400 /\ req[s].calls = << >>)
    /\ [][\A s \in Slots :
            (req'[s] # req[s] /\ req'[s].pc = "done" /\ req'[s].resp.statusCode = 400) =>
                table' = table /\ bucket' = bucket]_vars

\* C9 witness: a white-space title was refused while the stores held a
\* record and a blob.
C9_Witness ==
    \E s \in Slots :
        /\ BlankTitle(s) /\ Len(SentTitle(s).s) > 0 /\ Done(s)
        /\ DOMAIN table # {} /\ DOMAIN bucket # {}

\* C10: a request with no verified subject is answered 401 before any other
\* check and without a store call.
C10_UnauthorizedFirst ==
    \A s \in Slots :
        (req[s].op # "none" /\ Sub(req[s].auth) = "") =>
            Done(s) /\ Status(s) = 401 /\ req[s].calls = << >>

\* The body of the request in slot s lacks a required field or has it
\* ill-typed: no body, no JSON, no object, no string title, no floorspaceJson.
MalformedBody(s) ==
    LET r == req[s]
        parsed == JSONparse(r.body)
    IN  \/ r.body = NoBody
        \/ ~parsed.ok
        \/ parsed.value.t # "obj"
        \/ r.op = "createUpdate" /\ Prop(parsed.value, "name").t # "str"
        \/ r.op = "uploadFloorspace"
              /\ Prop(parsed.value, "floorspaceJson").t = "undefined"

\* C11: create-or-update and upload-blob by a verified caller answer 400
\* VALIDATION_ERROR, never 500, when the body is absent, is no JSON, parses to
\* a non-object such as null, has no string title or has no floorspaceJson.
C11_MalformedBodyIs400 ==
    \A s \in Slots :
        (/\ Done(s) /\ req[s].op \in {"createUpdate", "uploadFloorspace"}
         /\ Sub(req[s].auth) # ""
         /\ req[s].op = "uploadFloorspace" => req[s].pathId # NoProjectId
         /\ MalformedBody(s))
            => /\ Status(s) = 400
               /\ req[s].resp.body.error.code = "VALIDATION_ERROR"

\* No owner stores a record under the id.
StoredNowhere(id) == \A k \in DOMAIN table : k[2] # id

\* C12: get-one, delete and upload-blob on an id that no owner stores a record
\* under answer 404 NOT_FOUND after the one lookup, and neither store changes.
C12_MissingIs404 ==
    [][\A s \in Slots :
          (/\ req[s].op \in ByRecordId /\ req[s].pc = "get" /\ req'[s] # req[s]
           /\ StoredNowhere(req[s].projectId))
              => /\ req'[s].pc = "done"
                 /\ req'[s].resp.statusCode = 404
                 /\ req'[s].resp.body.error.code = "NOT_FOUND"
                 /\ req'[s].calls = <<"GetCommand">>
                 /\ table' = table /\ bucket' = bucket]_vars

\* C12 witness: a request on an id stored nowhere was answered, after a
\* project had been created.
C12_Witness ==
    \E s \in Slots :
        /\ Done(s) /\ req[s].op \in ByRecordId /\ LookedUp(s)
        /\ StoredNowhere(req[s].projectId) /\ req[s].item = << >>
        /\ uuidCount > 0

\* C13: get-one by the owner of a stored record answers 200 with the
\* record's projectId, name, description, createdAt and updatedAt and a signed
\* read URL for the record's blob path, and neither store changes.
C13_GetOneFrame ==
    [][\A s \in Slots :
          (/\ req[s].op = "getProject" /\ req[s].pc = "get" /\ req'[s] # req[s]
           /\ <<req[s].userId, req[s].projectId>> \in DOMAIN table)
              => LET item == table[<<req[s].userId, req[s].projectId>>]
                 IN  /\ req'[s].pc = "done"
                     /\ req'[s].resp.statusCode = 200
                     /\ req'[s].resp.body.view =
                           [projectId |-> item.projectId, name |-> item.name,
                            description |-> item.description,
                            createdAt |-> item.createdAt,
                            updatedAt |-> item.updatedAt]
                     /\ req'[s].resp.body.floorspaceUrl = PresignedUrl(item.s3Key)
                     /\ item.s3Key = BlobPath(req[s].userId, req[s].projectId)
                     /\ table' = table /\ bucket' = bucket]_vars

\* C13 witness: the owner was answered 200 about a record that was updated
\* after its creation.
C13_Witness ==
    \E s \in Slots :
        /\ Done(s) /\ req[s].op = "getProject" /\ Status(s) = 200
        /\ req[s].resp.body.view.updatedAt > req[s].resp.body.view.createdAt

\* The description a create-or-update request sends, trimmed; empty when
\* it sends none.
SentDescription(s) ==
    LET d == Prop(JSONparse(req[s].body).value, "description")
    IN  IF d.t = "str" THEN Trim(d.s) ELSE << >>

\* C14: create-or-update with a concrete id stored under the caller takes the
\* update path: it writes the record with the new trimmed title and
\* description and updatedAt = now, keeps owner, id, createdAt and blobPath,
\* leaves the Blob Store unchanged and answers 200.
C14_UpdatePath ==
    [][\A s \in Slots :
          LET k == <<req[s].userId, req[s].projectId>>
          IN  (/\ req[s].op = "createUpdate" /\ req'[s] # req[s] /\ k \in DOMAIN table)
                  => /\ req[s].pc = "get" =>
                          /\ req'[s].pc = "putItem" /\ ~req'[s].isNewProject
                          /\ req'[s].updatedAt \in clock..clock'
                          /\ table' = table /\ bucket' = bucket
                     /\ (req[s].pc = "putItem" /\ ~req[s].isNewProject) =>
                          /\ table' = [table EXCEPT ![k] =
                                [@ EXCEPT !.name = Trim(SentTitle(s).s),
                                          !.description = SentDescription(s),
                                          !.updatedAt = req[s].updatedAt]]
                          /\ bucket' = bucket
                          /\ req'[s].pc = "done" /\ req'[s].resp.statusCode = 200
                          /\ req'[s].calls = <<"GetCommand", "PutCommand">>]_vars

\* C14 witness: an update that changed the title of a record created earlier
\* was answered.
C14_Witness ==
    \E s \in Slots :
        /\ Done(s) /\ req[s].op = "createUpdate" /\ ~req[s].isNewProject
        /\ Status(s) = 200 /\ req[s].item # << >>
        /\ req[s].item[1].name # req[s].resp.body.name
        /\ req[s].updatedAt > req[s].createdAt

\* A creating call for the record under key k has completed, and a delete
\* call on it has started (every request of SpecRace stays on record).
CreationCompleted(k) ==
    \E s \in Slots :
        /\ req[s].op = "createUpdate" /\ req[s].isNewProject
        /\ <<req[s].userId, req[s].projectId>> = k
        /\ Done(s) /\ Status(s) = 201
DeleteStarted(k) ==
    \E s \in Slots :
        req[s].op = "deleteProject" /\ <<req[s].userId, req[s].projectId>> = k

\* C15: without a store failure and under any interleaving of the owner's
\* calls, a record present after its creating call completed and before a
\* delete call on it started has a Blob Store object at its blobPath.
C15_BlobWhileRecord ==
    \A k \in DOMAIN table :
        (CreationCompleted(k) /\ ~DeleteStarted(k))
            => /\ "s3Key" \in DOMAIN table[k]
               /\ table[k].s3Key = BlobPath(k[1], k[2])
               /\ table[k].s3Key \in DOMAIN bucket

\* C15 witness: a record whose creation completed, with no delete started,
\* after an upload-blob and a second create-or-update on it were answered.
C15_Witness ==
    \E k \in DOMAIN table :
        /\ CreationCompleted(k) /\ ~DeleteStarted(k)
        /\ \E s \in Slots : req[s].op = "uploadFloorspace" /\ Done(s) /\ Status(s) = 200
        /\ \E s \in Slots : req[s].op = "createUpdate" /\ Done(s) /\ Status(s) = 200

C17_DashboardAfterDelete ==
    [][(dashboard.call.kind = "delete" /\ dashboard'.call = NoApiCall) =>
          IF Rejects(req[1].resp)
          THEN Displayed(dashboard') = Displayed(dashboard)
          ELSE Displayed(dashboard') =
                  {p \in Displayed(dashboard) : p.projectId # dashboard.call.projectId}]_vars

\* C18: under every interleaving on one (owner, id), a Record Store entry
\* comes into existence only by create-or-update's PutCommand, never by
\* upload-blob or delete, so every entry carries a title, createdAt, updatedAt
\* and blobPath.
C18_OnlyCreateCreates ==
    /\ [][\A k \in DOMAIN table' \ DOMAIN table :
            \E s \in Slots :
                /\ req[s].op = "createUpdate" /\ req[s].pc = "putItem"
                /\ req'[s] # req[s]]_vars
    /\ [](\A k \in DOMAIN table :
            {"name", "createdAt", "updatedAt", "s3Key"} \subseteq DOMAIN table[k])

\* C19: with a clock that never goes backwards, the updatedAt of a stored
\* record never decreases while the record is stored, under any interleaving
\* of create-or-update and upload-blob calls on it.
C19_UpdatedAtMonotone ==
    [][\A k \in DOMAIN table \cap DOMAIN table' :
          table'[k].updatedAt >= table[k].updatedAt]_vars

\* C20: no call, in any interleaving, changes the createdAt of an entry
\* already present in the Record Store.
C20_CreatedAtImmutable ==
    [][\A k \in DOMAIN table \cap DOMAIN table' :
          "createdAt" \in DOMAIN table[k] =>
              /\ "createdAt" \in DOMAIN table'[k]
              /\ table'[k].createdAt = table[k].createdAt]_vars

\* C21: with a clock that never goes backwards, every record in the Record
\* Store has updatedAt >= createdAt, in every reachable state.
C21_UpdatedNotBeforeCreated ==
    \A k \in DOMAIN table :
        "createdAt" \in DOMAIN table[k] => table[k].updatedAt >= table[k].createdAt

\* The blobs at a path owner/id/floorspace.json under which no record is
\* stored.
Orphans ==
    {q \in DOMAIN bucket : ~\E k \in DOMAIN table : q = BlobPath(k[1], k[2])}
\* The delete of slot s has made its first write and not its second: it is
\* about to send the DeleteCommand, or the DeleteCommand was rejected.
DeleteHalfDone(s) ==
    /\ req[s].op = "deleteProject"
    /\ req[s].pc = "deleteItem" \/ req[s].error = "DeleteCommand"

RECURSIVE IsPrefix(_, _)
IsPrefix(a, b) ==
    \/ a = << >>
    \/ b # << >> /\ Head(a) = Head(b) /\ IsPrefix(Tail(a), Tail(b))

DeletedThenOnlyDeletes(s) ==
    /\ req[s].op = "deleteProject" /\ Done(s) /\ Status(s) = 200
    /\ \A t \in Slots : t > s => req[t].op \in {"none", "deleteProject"}

\* C23: a delete on a record whose blob is already missing treats the blob
\* deletion as a no-op, answers 200 and removes the record; and deletes run
\* after a delete that answered 200 leave the stores as that one left them:
\* no record under (owner, id) and no blob at its path.
C23_DeleteRerun ==
    /\ \A s \in Slots :
          (/\ req[s].op = "deleteProject" /\ Done(s)
           /\ req[s].item # << >> /\ req[s].error = "")
              => /\ Status(s) = 200
                 /\ req[s].calls = <<"GetCommand", "DeleteObjectCommand", "DeleteCommand">>
                 /\ (\A t \in Slots : t > s => req[t].op = "none") =>
                        <<req[s].userId, req[s].projectId>> \notin DOMAIN table
    /\ \A s \in Slots :
          DeletedThenOnlyDeletes(s) =>
              /\ <<req[s].userId, req[s].projectId>> \notin DOMAIN table
              /\ BlobPath(req[s].userId, req[s].projectId) \notin DOMAIN bucket
              /\ \A t \in Slots :
                    (t > s /\ Done(t) /\ req[t].error = "") => Status(t) = 404

\* C23 witness: a delete answered 200 on a record whose blob an earlier
\* delete had removed before its DeleteCommand was rejected.
C23_Witness ==
    \E s \in Slots :
        /\ s > 1 /\ req[s].op = "deleteProject" /\ Done(s) /\ Status(s) = 200
        /\ req[s - 1].op = "deleteProject" /\ req[s - 1].error = "DeleteCommand"

\* The create-or-update of slot s is on the creation path and has made its
\* first write and not its second: it is about to send the PutObjectCommand,
\* or the PutObjectCommand was rejected.
CreateHalfDone(s) ==
    /\ req[s].op = "createUpdate" /\ req[s].isNewProject
    /\ req[s].pc = "putObject" \/ req[s].error = "PutObjectCommand"

\* C24: on the creation path create-or-update writes the record before the
\* blob and does not roll back: when the PutObjectCommand is rejected the
\* request ends in 500, and a creation that stops between its two writes
\* (rejected call or crash) leaves the record with no blob at its path, never
\* a blob without a record.
C24_CreateRecordFirst ==
    /\ \A s \in Slots :
          (req[s].op = "createUpdate" /\ req[s].isNewProject) =>
              \/ IsPrefix(req[s].calls, <<"PutCommand", "PutObjectCommand">>)
              \/ IsPrefix(req[s].calls, <<"GetCommand", "PutCommand", "PutObjectCommand">>)
    /\ \A s \in Slots :
          CreateHalfDone(s) =>
              LET k == <<req[s].userId, req[s].projectId>> IN
              /\ k \in DOMAIN table
              /\ table[k] = ProjectItem(req[s])
              /\ table[k].s3Key = BlobPath(k[1], k[2])
              /\ table[k].s3Key \notin DOMAIN bucket
              /\ req[s].error = "PutObjectCommand" =>
                    /\ Done(s) /\ Status(s) = 500
                    /\ req[s].resp.body.error.code = "INTERNAL_ERROR"
    /\ \A q \in DOMAIN bucket : \E k \in DOMAIN table : q = BlobPath(k[1], k[2])

\* C24 witness: the PutObjectCommand of a creation under an id the caller
\* named was rejected.
C24_Witness ==
    \E s \in Slots :
        /\ CreateHalfDone(s) /\ Done(s) /\ Status(s) = 500
        /\ req[s].calls = <<"GetCommand", "PutCommand", "PutObjectCommand">>

\* Slot m holds a metadata update and slot u an upload-blob, both answered
\* 200, on the record the creation of slot 1 stored.
UpdateAndUpload(m, u) ==
    /\ req[1].op = "createUpdate" /\ Done(1) /\ Status(1) = 201
    /\ req[m].op = "createUpdate" /\ Done(m) /\ Status(m) = 200
    /\ req[u].op = "uploadFloorspace" /\ Done(u) /\ Status(u) = 200
    /\ req[m].projectId = req[1].projectId /\ req[u].projectId = req[1].projectId

\* C25: when a metadata update and an upload-blob run concurrently on an
\* existing record and both succeed, then in every interleaving the final
\* record has the update's title and description and its original createdAt,
\* the final blob is the uploaded payload, and the only field both write is
\* updatedAt: the upload's record write changes nothing else, and the update
\* writes no blob.
C25_UpdateAndUploadCommute ==
    /\ [](\A m, u \in PairSlots :
            UpdateAndUpload(m, u) =>
                LET k == <<req[1].userId, req[1].projectId>> IN
                /\ k \in DOMAIN table
                /\ \E t \in {req[m].updatedAt, req[u].updatedAt} :
                      table[k] = [userId |-> k[1], projectId |-> k[2],
                                  name |-> Trim(SentTitle(m).s),
                                  description |-> SentDescription(m),
                                  createdAt |-> req[1].createdAt,
                                  updatedAt |-> t,
                                  s3Key |-> BlobPath(k[1], k[2])]
                /\ BlobPath(k[1], k[2]) \in DOMAIN bucket
                /\ JSONparse(bucket[BlobPath(k[1], k[2])]) =
                      [ok |-> TRUE, value |-> SentPayload(u)])
    /\ [][\A s \in PairSlots :
            LET k == <<req[s].userId, req[s].projectId>> IN
            /\ (req[s].op = "uploadFloorspace" /\ req'[s] # req[s] /\ k \in DOMAIN table) =>
                  /\ k \in DOMAIN table'
                  /\ table' = [table EXCEPT ![k] =
                                  [f \in DOMAIN table[k] |->
                                      IF f = "updatedAt" THEN table'[k].updatedAt
                                      ELSE table[k][f]]]
            /\ (req[s].op = "createUpdate" /\ ~req[s].isNewProject /\ req'[s] # req[s]) =>
                  bucket' = bucket]_vars

\* C25 witness: both were answered, the update changed the title, and the
\* upload, which read the clock earlier than the update, wrote updatedAt last.
C25_Witness ==
    \E m, u \in PairSlots :
        /\ UpdateAndUpload(m, u)
        /\ Trim(SentTitle(m).s) # Trim(SentTitle(1).s)
        /\ req[u].updatedAt < req[m].updatedAt
        /\ table[<<req[1].userId, req[1].projectId>>].updatedAt = req[u].updatedAt

\* The stores agree everywhere but under key k and at k's blob path.
SameElsewhere(k, tbl1, tbl2, bkt1, bkt2) ==
    /\ DOMAIN tbl1 \ {k} = DOMAIN tbl2 \ {k}
    /\ \A j \in DOMAIN tbl1 \ {k} : tbl1[j] = tbl2[j]
    /\ DOMAIN bkt1 \ {BlobPath(k[1], k[2])} = DOMAIN bkt2 \ {BlobPath(k[1], k[2])}
    /\ \A q \in DOMAIN bkt1 \ {BlobPath(k[1], k[2])} : bkt1[q] = bkt2[q]

\* C26: a step of an operation on key (owner, id) changes at most the record
\* under that key and the blob at owner/id/floorspace.json; the records and
\* blobs of every other key, of the same owner or of another, are unchanged,
\* under any interleaving with operations on other keys.
C26_KeyFrame ==
    [][\A s \in Slots :
          (req'[s] # req[s] /\ (table' # table \/ bucket' # bucket)) =>
              SameElsewhere(<<req'[s].userId, req'[s].projectId>>,
                            table, table', bucket, bucket')]_vars

\* C26 witness: an upload-blob under one key was answered while the other
\* invocation was between its two writes under another key, with the records
\* of both keys stored.
C26_Witness ==
    \E s, t \in PairSlots :
        /\ s # t
        /\ req[s].pc = "putObject" /\ req[s].op = "createUpdate"
        /\ req[t].pc = "done" /\ req[t].op = "uploadFloorspace" /\ Status(t) = 200
        /\ <<req[s].userId, req[s].projectId>> # <<req[t].userId, req[t].projectId>>
        /\ <<req[s].userId, req[s].projectId>> \in DOMAIN table
        /\ <<req[t].userId, req[t].projectId>> \in DOMAIN table

\* C28: under any interleaving of upload-blob and delete calls of the owner
\* on one record, with no store failure, every blob at a path
\* owner/id/floorspace.json has a record under (owner, id).
C28_NoBlobWithoutRecord ==
    (\A s \in PairSlots : req[s].op \in {"none", "uploadFloorspace", "deleteProject"}) =>
        \A q \in DOMAIN bucket :
            \E k \in DOMAIN table : q = BlobPath(k[1], k[2])

\* An upload-blob on the record under key k has returned 200.
Uploaded(k) ==
    \E u \in Slots :
        /\ req[u].op = "uploadFloorspace" /\ Done(u) /\ Status(u) = 200
        /\ <<req[u].userId, req[u].projectId>> = k

\* C29: once an upload-blob on a record has returned 200, the blob at the
\* record's path changes only by a step of an upload-blob or of a delete,
\* never by a step of a create-or-update, in any interleaving.
C29_UploadedBlobKept ==
    [][\A s \in Slots :
          LET k == <<req[s].userId, req[s].projectId>>
              q == BlobPath(req[s].userId, req[s].projectId)
          IN  (/\ req'[s] # req[s] /\ req[s].op = "createUpdate" /\ Uploaded(k)
               /\ q \in DOMAIN bucket)
                  => q \in DOMAIN bucket' /\ bucket'[q] = bucket[q]]_vars

\* C27: when the editor loads a project whose record exists but whose blob
\* cannot be read (the fetch through the signed URL is not ok, or no URL was
\* returned), it starts from the default empty document and reports no load
\* error; and the editor is in its error state only after a failing get-one
\* call.
C27_MissingBlobIsEmptyDocument ==
    /\ [][(editor.fetched = "none" /\ editor'.fetched \in {"notOk", "noUrl"}) =>
             /\ editor'.floorspaceData = EmptyFloorspaceJson
             /\ editor'.error = "" /\ ~editor'.loading
             /\ editor'.project # << >>
             /\ EditorShown(editor')]_vars
    /\ [](ErrorPage(editor) =>
             /\ req[1].op = "getProject" /\ Done(1) /\ Rejects(req[1].resp)
             /\ editor.error = LoadErrorText(req[1].resp))

\* C27 witness: the editor loaded a project whose record is stored and whose
\* blob is missing.
C27_Witness ==
    /\ editor.fetched = "notOk" /\ editor.phase = "ready"
    /\ <<"u1", editor.projectId>> \in DOMAIN table
    /\ S3Key("u1", editor.projectId) \notin DOMAIN bucket
    /\ editor.floorspaceData = EmptyFloorspaceJson

\* C30: while an upload started by a save (the Save button or the auto-save
\* timer) is in flight and the save status is 'saving', no step other than
\* the settling of an upload changes the status: the 2-second timer of an
\* earlier completed save never sets it to 'idle' during a later save in
\* flight.
C30_SavingWhileInFlight ==
    [][(/\ editor.saves # {} /\ editor.saveStatus = "saving"
        /\ editor'.saves = editor.saves)
           => editor'.saveStatus = "saving"]_vars

====
